---- MODULE Spec2Model ----
(***************************************************************************)
(* State-machine model of the snake game in src/main.go: Game.Update,     *)
(* Game.init and Game.spawnFood, driven by polled keys and the wall clock. *)
(* Time is counted in units of 50 ms; every time.Now() of one Update call  *)
(* reads the same instant.                                                 *)
(***************************************************************************)
EXTENDS Integers, Sequences, FiniteSets

VARIABLES snake, dir, foods, grow, gameOver, lastMove, score, lives,
          nextFoodTime,
          clock,     \* the wall clock read by time.Now()
          pressed,   \* keys held during the last Update call
          stepped,   \* the last Update call passed the 100 ms gate
          applied,   \* heading used by the last simulation step of this life
          steps,     \* number of simulation steps executed so far
          hit,       \* what the new head met in the last Update call
          spawns     \* the spawns of this life: instant and food count after

vars == <<snake, dir, foods, grow, gameOver, lastMove, score, lives,
          nextFoodTime, clock, pressed, stepped, applied, steps, hit, spawns>>

(* ---------------------------- program constants ------------------------ *)
screenWidth == 320
screenHeight == 240
gridSize == 24
initialLen == 3
MoveInterval == 2
FoodLifetime == 80
SpawnDelay == 20
maxFoods == 4
foodReward == 10
startLives == 3

GridW == screenWidth \div gridSize
GridH == screenHeight \div gridSize

(* ------------------------------- bounds -------------------------------- *)
MaxSteps == 5
MaxTime == 92
KeySteps == 2

FoodSteps == 6

(* ------------------------------ helpers -------------------------------- *)
Range(s) == {s[i] : i \in 1..Len(s)}

Grid == (0..(GridW - 1)) \X (0..(GridH - 1))

Up == <<0, -1>>
Down == <<0, 1>>
Left == <<-1, 0>>
Right == <<1, 0>>
NoDir == <<0, 0>>

Keys == {"ArrowUp", "ArrowDown", "ArrowLeft", "ArrowRight", "Space"}

(* The keys held during one Update call: none or one key. Whatever keys are *)
(* held, the heading Update takes is the old one or one of the two          *)
(* perpendicular ones, and each of these is reached with one key.           *)
KeySets == {{}} \cup {{k} : k \in Keys}

(* The time since the previous Update call: 50 ms, or a pause of 4 s.       *)
Delays == {1, FoodLifetime}

(* Direction input: the else-if chain of Update. *)
DirectionInput_NoGuard(d, K) ==
    IF "ArrowUp" \in K THEN Up
    ELSE IF "ArrowDown" \in K THEN Down
    ELSE IF "ArrowLeft" \in K THEN Left
    ELSE IF "ArrowRight" \in K THEN Right
    ELSE d

DirectionInput(d, K) ==
    IF "ArrowUp" \in K /\ d[2] # 1 THEN Up
    ELSE IF "ArrowDown" \in K /\ d[2] # -1 THEN Down
    ELSE IF "ArrowLeft" \in K /\ d[1] # 1 THEN Left
    ELSE IF "ArrowRight" \in K /\ d[1] # -1 THEN Right
    ELSE d

NewSession_AnyKey(K) == K # {}

NewSession(K) == "Space" \in K

MoveDue_Early(now, last) == ~(now - last < MoveInterval - 1)

MoveDue(now, last) == ~(now - last < MoveInterval)

NewHead(s, d) == <<s[1][1] + d[1], s[1][2] + d[2]>>

HitsWall_OffByOne(p) == p[1] < 0 \/ p[2] < 0 \/ p[1] > GridW \/ p[2] > GridH

HitsWall(p) == p[1] < 0 \/ p[2] < 0 \/ p[1] >= GridW \/ p[2] >= GridH

HitsSelf_SkipTail(s, p) == \E i \in 1..(Len(s) - 1) : s[i] = p

HitsSelf_SkipNeck(s, p) == \E i \in 1..Len(s) : i # 2 /\ s[i] = p

HitsSelf(s, p) == \E i \in 1..Len(s) : s[i] = p

InitSnake ==
    [i \in 1..initialLen |-> <<GridW \div 2 - (i - 1), GridH \div 2>>]

FoodPositions(fs) == {fs[i].Pos : i \in 1..Len(fs)}

(* Index of the first food on cell p, 0 when there is none. *)
AteFood(fs, p) ==
    IF \E i \in 1..Len(fs) : fs[i].Pos = p
    THEN CHOOSE i \in 1..Len(fs) :
            /\ fs[i].Pos = p
            /\ \A j \in 1..(i - 1) : fs[j].Pos # p
    ELSE 0

RemoveAt_Truncate(fs, i) == SubSeq(fs, 1, i - 1)

RemoveAt(fs, i) == SubSeq(fs, 1, i - 1) \o SubSeq(fs, i + 1, Len(fs))

(* The tail is dropped unless the snake grows in this step. *)
Trim_Always(moved, growing) == SubSeq(moved, 1, Len(moved) - 1)

Trim(moved, growing) ==
    IF ~growing THEN SubSeq(moved, 1, Len(moved) - 1) ELSE moved

Alive_Inclusive(food, now) == now - food.Spawned <= food.Lifetime

Alive(food, now) == now - food.Spawned < food.Lifetime

Expire(fs, now) == SelectSeq(fs, LAMBDA food : Alive(food, now))

IsZero(t) == t < 0

SpawnDue(fs, now, deadline) ==
    Len(fs) < maxFoods /\ (IsZero(deadline) \/ now > deadline)

(* spawnFood's overlap test of a drawn cell. *)
Overlap_SnakeOnly(s, fs, p) == p \in Range(s)

Overlap_FoodOnly(s, fs, p) == p \in FoodPositions(fs)

Overlap(s, fs, p) == p \in Range(s) \/ p \in FoodPositions(fs)

(* The cells left and right of a head cell.                                 *)
Beside == [h \in Grid |-> {<<h[1] + dx, h[2]>> : dx \in {-1, 1}}]

(* The draws enumerated for spawnFood's loop: the accepted cells among      *)
(* near[head], any accepted cell of the grid if there is none.              *)
Draws(s, fs, near) ==
    LET cells == IF s[1] \in DOMAIN near THEN near[s[1]] ELSE {}
        close == {p \in cells : p \in Grid /\ ~Overlap(s, fs, p)}
    IN IF close # {} THEN close ELSE {p \in Grid : ~Overlap(s, fs, p)}

NewFood(p, now) == [Pos |-> p, Spawned |-> now, Lifetime |-> FoodLifetime]

NextDeadline_AlwaysDelay(fs, now) == now + SpawnDelay

NextDeadline_NoDelay(fs, now) == now

NextDeadline(fs, now) == IF Len(fs) < maxFoods THEN now ELSE now + SpawnDelay

(* Food consumption, then expiry: whether the head ate, and the food left.  *)
Consume_ExpireFirst(fs, p, now) ==
    LET live == Expire(fs, now)
        ate == AteFood(live, p)
    IN [ate |-> ate # 0,
        foods |-> IF ate # 0 THEN RemoveAt(live, ate) ELSE live]

Consume(fs, p, now) ==
    LET ate == AteFood(fs, p)
        left == IF ate # 0 THEN RemoveAt(fs, ate) ELSE fs
    IN [ate |-> ate # 0, foods |-> Expire(left, now)]

(* What a new head cell p meets in the snake s.                             *)
HitKind(s, p) ==
    IF p \notin Grid THEN "wall"
    ELSE IF p = s[Len(s)] THEN "tail"
    ELSE IF p \in Range(s) THEN "body"
    ELSE "none"

(* ------------------------------- state --------------------------------- *)
Init ==
    /\ snake = InitSnake
    /\ dir = Right
    /\ foods = <<>>
    /\ grow = FALSE
    /\ gameOver = FALSE
    /\ lastMove = 0
    /\ score = 0
    /\ lives = startLives
    /\ nextFoodTime = 0
    /\ clock = 0
    /\ pressed = {}
    /\ stepped = FALSE
    /\ applied = NoDir
    /\ steps = 0
    /\ hit = "none"
    /\ spawns = <<>>

(* Game.init at instant now; lives and score are the caller's. *)
GameInit_KeepFood(now) ==
    /\ snake' = InitSnake
    /\ dir' = Right
    /\ grow' = FALSE
    /\ gameOver' = FALSE
    /\ foods' = foods
    /\ lastMove' = now
    /\ nextFoodTime' = now
    /\ applied' = NoDir

GameInit(now) ==
    /\ snake' = InitSnake
    /\ dir' = Right
    /\ grow' = FALSE
    /\ gameOver' = FALSE
    /\ foods' = <<>>
    /\ lastMove' = now
    /\ nextFoodTime' = now
    /\ applied' = NoDir

(* Collision branch of Update (wall or self). *)
Collide_AlwaysInit(now, heading) ==
    /\ lives' = lives - 1
    /\ score' = score
    /\ snake' = InitSnake
    /\ dir' = Right
    /\ grow' = FALSE
    /\ gameOver' = ~(lives - 1 > 0)
    /\ foods' = <<>>
    /\ lastMove' = now
    /\ nextFoodTime' = now
    /\ applied' = NoDir

Collide_LoseScore(now, heading) ==
    /\ lives' = lives - 1
    /\ score' = 0
    /\ IF lives - 1 > 0
       THEN GameInit(now)
       ELSE /\ gameOver' = TRUE
            /\ dir' = heading
            /\ applied' = heading
            /\ lastMove' = now
            /\ UNCHANGED <<snake, foods, grow, nextFoodTime>>

Collide_ResetAtZero(now, heading) ==
    /\ lives' = lives - 1
    /\ score' = score
    /\ IF lives - 1 >= 0
       THEN GameInit(now)
       ELSE /\ gameOver' = TRUE
            /\ dir' = heading
            /\ applied' = heading
            /\ lastMove' = now
            /\ UNCHANGED <<snake, foods, grow, nextFoodTime>>

Collide(now, heading) ==
    /\ lives' = lives - 1
    /\ score' = score
    /\ IF lives - 1 > 0
       THEN GameInit(now)
       ELSE /\ gameOver' = TRUE
            /\ dir' = heading
            /\ applied' = heading
            /\ lastMove' = now
            /\ UNCHANGED <<snake, foods, grow, nextFoodTime>>

(* Non-colliding simulation step of Update. *)
Advance(now, heading, newHead, near) ==
    LET moved == <<newHead>> \o snake
        meal == Consume(foods, newHead, now)
        growing == IF meal.ate THEN TRUE ELSE grow
        body == Trim(moved, growing)
        fresh == meal.foods
    IN  /\ snake' = body
        /\ dir' = heading
        /\ applied' = heading
        /\ grow' = FALSE
        /\ score' = IF meal.ate THEN score + foodReward ELSE score
        /\ lastMove' = now
        /\ UNCHANGED <<lives, gameOver>>
        /\ IF SpawnDue(fresh, now, nextFoodTime)
           THEN \E p \in Draws(body, fresh, near) :
                    /\ foods' = Append(fresh, NewFood(p, now))
                    /\ nextFoodTime' = NextDeadline(foods', now)
           ELSE /\ foods' = fresh
                /\ UNCHANGED nextFoodTime

(* One call of Game.Update, d time units after the previous call, with the  *)
(* keys K held; near gives the food draws enumerated.                       *)
Update(K, d, near) ==
    LET now == clock + d IN
    /\ clock' = now
    /\ pressed' = K
    /\ IF gameOver
       THEN /\ stepped' = FALSE
            /\ hit' = "none"
            /\ UNCHANGED steps
            /\ IF NewSession(K)
               THEN /\ lives' = startLives
                    /\ score' = 0
                    /\ GameInit(now)
               ELSE UNCHANGED <<snake, dir, foods, grow, gameOver, lastMove,
                                score, lives, nextFoodTime, applied>>
       ELSE LET heading == DirectionInput(dir, K)
                newHead == NewHead(snake, heading)
            IN  IF ~MoveDue(now, lastMove)
                THEN /\ dir' = heading
                     /\ stepped' = FALSE
                     /\ hit' = "none"
                     /\ UNCHANGED <<snake, foods, grow, gameOver, lastMove,
                                    score, lives, nextFoodTime, applied, steps>>
                ELSE /\ steps' = steps + 1
                     /\ stepped' = TRUE
                     /\ hit' = HitKind(snake, newHead)
                     /\ IF HitsWall(newHead) \/ HitsSelf(snake, newHead)
                        THEN Collide(now, heading)
                        ELSE Advance(now, heading, newHead, near)
    /\ spawns' =
          IF (lives' < lives /\ ~gameOver') \/ (gameOver /\ ~gameOver')
          THEN <<>>
          ELSE IF \E i \in 1..Len(foods') : foods'[i].Spawned = now
          THEN Append(spawns, [at |-> now, count |-> Len(foods')])
          ELSE spawns

(* Whether the Update call d time units from now runs a simulation step.    *)
WillStep(d) == ~gameOver /\ MoveDue(clock + d, lastMove)

(* The model is bounded in wall-clock time and in simulation steps.         *)
Next ==
    \E K \in KeySets, d \in Delays :
        /\ clock + d <= MaxTime
        /\ WillStep(d) => steps < MaxSteps
        /\ Update(K, d, Beside)

Spec == Init /\ [][Next]_vars

(* The first simulation steps under every combination of held keys.         *)
NextKeys ==
    \E K \in SUBSET Keys, d \in Delays :
        /\ clock + d <= MaxTime
        /\ WillStep(d) => steps < KeySteps
        /\ Update(K, d, Beside)

SpecKeys == Init /\ [][NextKeys]_vars

(* Food spawning over more steps: every Update call runs a step, 100 ms,   *)
(* 1 s or 4 s after the one before, and the snake is steered up and left.   *)
FoodKeys == {{}, {"ArrowUp"}, {"ArrowLeft"}}

FoodDelays == {MoveInterval, SpawnDelay, FoodLifetime}

NextFood ==
    \E K \in FoodKeys, d \in FoodDelays :
        /\ clock + d <= MaxTime
        /\ WillStep(d) => steps < FoodSteps
        /\ Update(K, d, Beside)

SpecFood == Init /\ [][NextFood]_vars

(* Filling the grid: the player steers the snake along a route through     *)
(* every cell of the grid, and every food item is drawn on the route's next *)
(* cell, so that each step after the first eats.                            *)
KeyOf(d) ==
    IF d = Up THEN "ArrowUp"
    ELSE IF d = Down THEN "ArrowDown"
    ELSE IF d = Left THEN "ArrowLeft"
    ELSE "ArrowRight"

RouteNext(p) ==
    LET x == p[1]
        y == p[2]
    IN  IF y = 5 /\ x >= 5
        THEN IF x < 12 THEN <<x + 1, 5>> ELSE <<12, 4>>
        ELSE IF x = 12 /\ y < 5
        THEN IF y > 0 THEN <<12, y - 1>> ELSE <<11, 0>>
        ELSE IF y < 5
        THEN IF y % 2 = 0
             THEN IF x > 0 THEN <<x - 1, y>> ELSE <<0, y + 1>>
             ELSE IF x < 11 THEN <<x + 1, y>> ELSE <<11, y + 1>>
        ELSE IF y = 5
        THEN IF x < 4 THEN <<x + 1, 5>> ELSE <<4, 6>>
        ELSE IF y = 6 /\ x <= 4
        THEN IF x > 0 THEN <<x - 1, 6>> ELSE <<0, 7>>
        ELSE IF x <= 4
        THEN IF x % 2 = 0
             THEN IF y < 9 THEN <<x, y + 1>> ELSE <<x + 1, 9>>
             ELSE IF y > 7 THEN <<x, y - 1>> ELSE <<x + 1, 7>>
        ELSE IF x % 2 = 1
        THEN IF y > 6 THEN <<x, y - 1>> ELSE <<x + 1, 6>>
        ELSE IF y < 9 THEN <<x, y + 1>>
        ELSE IF x < 12 THEN <<x + 1, 9>> ELSE p

Ahead == [h \in Grid |-> {RouteNext(h)} \ {h}]

RouteKeys ==
    LET to == RouteNext(snake[1])
    IN {KeyOf(<<to[1] - snake[1][1], to[2] - snake[1][2]>>)}

NextFill == Update(RouteKeys, MoveInterval, Ahead)

SpecFill == Init /\ [][NextFill]_vars

(* --------------------------- claim vocabulary -------------------------- *)
Distinct(s) == \A i, j \in 1..Len(s) : i # j => s[i] # s[j]

StartSnake == <<(<<6, 5>>), (<<5, 5>>), (<<4, 5>>)>>

Reverse(d) == <<0 - d[1], 0 - d[2]>>

Perpendicular(d) == {e \in {Up, Down, Left, Right} : e # d /\ e # Reverse(d)}

(* The transition is an Update call in the Playing phase that ran a         *)
(* simulation step, with the heading and the head cell that step used.      *)
SimStep == ~gameOver /\ stepped'
StepHeading == DirectionInput(dir, pressed')
StepHead == <<snake[1][1] + StepHeading[1], snake[1][2] + StepHeading[2]>>
StepCollides == StepHead \notin Grid \/ StepHead \in Range(snake)

(* The transition starts a new life: a reset after a death, or a restart.   *)
NewLife == (lives' < lives /\ ~gameOver') \/ (gameOver /\ ~gameOver')

Expired(f) == clock' - f.Spawned >= FoodLifetime

(* C1: whenever the game is Playing, the cells of the snake are pairwise    *)
(* distinct.                                                                *)
C1_SnakeCellsDistinct == ~gameOver => Distinct(snake)

C1_Witness ==
    /\ ~gameOver
    /\ stepped
    /\ Len(snake) >= 4
    /\ snake[1][2] # snake[Len(snake)][2]

(* C2: the food set holds 0 to 4 items, no two at the same position, every  *)
(* position inside the grid [0,13) x [0,10).                                *)
C2_FoodSetBounded ==
    /\ Len(foods) >= 0
    /\ Len(foods) <= 4
    /\ \A i, j \in 1..Len(foods) : i # j => foods[i].Pos # foods[j].Pos
    /\ \A i \in 1..Len(foods) :
          foods[i].Pos \in (0..12) \X (0..9)

C2_Witness == Len(foods) = 4 /\ steps = MaxSteps

(* C3: a simulation step whose new head is outside the grid or on a snake   *)
(* cell takes exactly one life; with lives left the game stays Playing with *)
(* the start snake heading Right, no food and the same score; with no life  *)
(* left the phase becomes GameOver.                                         *)
C3_CollisionLaw ==
    [][(SimStep /\ StepCollides) =>
          /\ lives' = lives - 1
          /\ lives' > 0 =>
                /\ ~gameOver'
                /\ snake' = StartSnake
                /\ dir' = Right
                /\ foods' = <<>>
                /\ score' = score
          /\ lives' = 0 => gameOver']_vars

C3_Witness ==
    /\ stepped
    /\ ~gameOver
    /\ applied = NoDir
    /\ lives = 2
    /\ score = 10

(* C4 as stated: a simulation step that ends in a collision changes neither *)
(* the score nor the food set.                                              *)
C4_Original ==
    [][(SimStep /\ StepCollides) => (score' = score /\ foods' = foods)]_vars

(* C4 amended: a simulation step that ends in a collision does not change   *)
(* the score, and does not change the food set when it leads to GameOver    *)
(* (a reset empties the food set).                                          *)
C4_CollisionFrame ==
    [][(SimStep /\ StepCollides) =>
          (score' = score /\ (gameOver' => foods' = foods))]_vars

C4_Witness ==
    /\ stepped
    /\ gameOver
    /\ foods # <<>>
    /\ score > 0

(* C5: the heading applied by a simulation step is never the reverse of the *)
(* heading applied by the previous step of the same life, so the head never *)
(* moves onto the snake's second segment.                                   *)
C5_NoReversal ==
    [][SimStep =>
          /\ applied # NoDir => StepHeading # Reverse(applied)
          /\ StepHead # snake[2]]_vars

(* C6: an Update call in which the key opposite to the held heading is down *)
(* (and no key of a perpendicular heading) leaves the heading unchanged,    *)
(* unless the same call ends the life and init() resets the heading.        *)
(* Checked under SpecKeys, for every set of held keys.                      *)
C6_OppositeKeyIgnored ==
    [][(/\ ~gameOver
        /\ KeyOf(Reverse(dir)) \in pressed'
        /\ \A e \in Perpendicular(dir) : KeyOf(e) \notin pressed'
        /\ ~NewLife) => dir' = dir]_vars

C6_Witness ==
    /\ ~gameOver
    /\ dir = Up
    /\ "ArrowDown" \in pressed
    /\ Cardinality(pressed) = 2
    /\ stepped
    /\ applied = Up

(* C7: within one life the snake length never decreases; a simulation step  *)
(* increases it by exactly 1 if it consumes a food item and every other     *)
(* Update call leaves it unchanged.                                         *)
C7_LengthLaw ==
    [][~NewLife =>
          Len(snake') = Len(snake) +
              (IF SimStep /\ ~StepCollides /\ StepHead \in FoodPositions(foods)
               THEN 1 ELSE 0)]_vars

C7_Witness == ~gameOver /\ stepped /\ Len(snake) = 5

(* C8: a non-colliding simulation step whose new head is on a food position *)
(* removes exactly that one food item and adds exactly 10 to the score; a   *)
(* step whose new head is on no food leaves the score unchanged.            *)
C8_ConsumptionLaw ==
    [][(SimStep /\ ~StepCollides) =>
          IF StepHead \in FoodPositions(foods)
          THEN /\ score' = score + 10
               /\ snake' = <<StepHead>> \o snake
               /\ StepHead \notin FoodPositions(foods')
               /\ Cardinality({i \in 1..Len(foods) : foods[i].Pos = StepHead}) = 1
               /\ Range(foods') \cap Range(foods) =
                     {f \in Range(foods) : f.Pos # StepHead /\ ~Expired(f)}
          ELSE score' = score]_vars

C8_Witness ==
    /\ stepped
    /\ score = 10
    /\ lives = 3
    /\ snake = <<(<<8, 5>>), (<<7, 5>>), (<<6, 5>>), (<<5, 5>>)>>
    /\ Len(foods) = 1

(* C9 as stated: a food item at least 4 seconds old is no longer in the food *)
(* set after the next executed simulation step, whatever its outcome.        *)
C9_Original ==
    [][SimStep =>
          \A f \in Range(foods) : Expired(f) => f \notin Range(foods')]_vars

(* C9 amended: a food item at least 4 seconds old is no longer in the food  *)
(* set after the next executed simulation step that does not end in         *)
(* GameOver (a normal move or a collision with reset).                      *)
C9_ExpiryLaw ==
    [][(SimStep /\ ~gameOver') =>
          \A f \in Range(foods) : Expired(f) => f \notin Range(foods')]_vars

C9_Witness ==
    /\ stepped
    /\ ~gameOver
    /\ steps = 2
    /\ lives = 3
    /\ score = 0
    /\ clock >= 80
    /\ Len(foods) = 1
    /\ foods[1].Spawned = clock

(* C10: a collision that takes the last life leaves the snake and the food  *)
(* set as they were, and in GameOver every Update call without the          *)
(* new-session key leaves snake, heading, food set, score, lives and phase  *)
(* unchanged, however much time passes.                                     *)
C10_GameOverFrozen ==
    [][/\ (~gameOver /\ gameOver') => (snake' = snake /\ foods' = foods)
       /\ (gameOver /\ "Space" \notin pressed') =>
             UNCHANGED <<snake, dir, foods, score, lives, gameOver>>]_vars

C10_Witness ==
    /\ gameOver
    /\ ~stepped
    /\ foods # <<>>
    /\ clock - lastMove >= 80

(* C11: in GameOver, an Update call with the new-session key held moves to   *)
(* Playing with lives = 3, score = 0, snake [(6,5),(5,5),(4,5)], heading    *)
(* Right and an empty food set.                                             *)
C11_NewSession ==
    [][(gameOver /\ "Space" \in pressed') =>
          /\ ~gameOver'
          /\ lives' = 3
          /\ score' = 0
          /\ snake' = StartSnake
          /\ dir' = Right
          /\ foods' = <<>>]_vars

C11_Witness ==
    /\ pressed = {"Space"}
    /\ ~stepped
    /\ ~gameOver
    /\ lastMove = clock
    /\ clock > 0
    /\ lives = 3
    /\ score = 0
    /\ snake = StartSnake
    /\ foods = <<>>

(* The heading and the head cell of a step when the new-session key is left *)
(* out of the held keys.                                                    *)
PlainHeading == DirectionInput(dir, pressed' \ {"Space"})
PlainHead == <<snake[1][1] + PlainHeading[1], snake[1][2] + PlainHeading[2]>>
PlainCollides == PlainHead \notin Grid \/ PlainHead \in Range(snake)

(* C12: the score never decreases and lives never increase, except in the   *)
(* GameOver to Playing transition made by the new-session key; in Playing   *)
(* that key changes neither (score and lives move as the step decides       *)
(* without it), and a reset after a non-terminal death keeps the score.     *)
C12_ScoreLivesMonotone ==
    [][/\ (score' < score \/ lives' > lives) =>
             (gameOver /\ ~gameOver' /\ "Space" \in pressed')
       /\ ~gameOver =>
             /\ score' = IF stepped' /\ ~PlainCollides
                            /\ PlainHead \in FoodPositions(foods)
                         THEN score + 10 ELSE score
             /\ lives' = IF stepped' /\ PlainCollides
                         THEN lives - 1 ELSE lives
       /\ (lives' < lives /\ ~gameOver') => score' = score]_vars

C12_Witness ==
    /\ ~gameOver
    /\ pressed = {"Space"}
    /\ score > 0
    /\ lives < 3
    /\ snake = StartSnake
    /\ lastMove < clock

(* C13: an Update call in Playing less than 100 ms after the last step (or  *)
(* reset) leaves snake, food set, score, lives, phase, last-step time and   *)
(* spawn deadline unchanged; only the heading may change.                   *)
C13_GateFrame ==
    [][(~gameOver /\ clock' - lastMove < 2) =>
          UNCHANGED <<snake, foods, score, lives, gameOver, lastMove,
                      nextFoodTime>>]_vars

C13_Witness ==
    /\ ~gameOver
    /\ ~stepped
    /\ clock - lastMove = 1
    /\ dir = Up
    /\ applied = Right
    /\ foods # <<>>

(* C19: after every Update call no food position is a snake cell.           *)
C19_FoodOffSnake == FoodPositions(foods) \cap Range(snake) = {}

C19_Witness ==
    /\ stepped
    /\ hit = "none"
    /\ Len(foods) >= 2
    /\ Len(snake) >= 4

(* C20: lives is in 0..3, the score is a non-negative multiple of 10, the   *)
(* snake has at least 3 cells, and the phase is GameOver exactly when lives *)
(* is 0.                                                                    *)
C20_StateRanges ==
    /\ lives \in 0..3
    /\ score >= 0
    /\ score % 10 = 0
    /\ Len(snake) >= 3
    /\ gameOver <=> lives = 0

C20_Witness ==
    /\ gameOver
    /\ lives = 0
    /\ score >= 10
    /\ Len(snake) >= 4

(* C17: within a step consumption comes before expiry: a food item whose   *)
(* age has reached the 4-second lifetime and which lies on the new head     *)
(* cell is eaten in that step (score + 10, snake one cell longer).          *)
C17_EatBeforeExpiry ==
    [][(/\ SimStep
        /\ ~StepCollides
        /\ \E f \in Range(foods) : f.Pos = StepHead /\ Expired(f)) =>
          /\ score' = score + 10
          /\ Len(snake') = Len(snake) + 1]_vars

C17_Witness ==
    /\ stepped
    /\ steps = 2
    /\ lives = 3
    /\ score = 10
    /\ Len(snake) = 4
    /\ Len(spawns) = 2
    /\ spawns[1].at + 80 <= clock

(* C18: the self-collision check covers the tail: a step whose new head is  *)
(* the current tail cell is a collision (lives - 1, snake not advanced:     *)
(* left as it is on GameOver, rebuilt by the reset otherwise).              *)
C18_TailCollision ==
    [][(SimStep /\ StepHead = snake[Len(snake)]) =>
          /\ lives' = lives - 1
          /\ gameOver' => snake' = snake
          /\ ~gameOver' => snake' = StartSnake]_vars

C18_Witness ==
    /\ stepped
    /\ hit = "tail"
    /\ lives = 2
    /\ snake = StartSnake
    /\ foods = <<>>

(* The step spawns a food item.                                             *)
SpawnsNow == \E i \in 1..Len(foods') : foods'[i].Spawned = clock'

(* C14: from the empty food set of a (re)start, non-colliding steps in      *)
(* which nothing is eaten or expired each spawn exactly one item, giving    *)
(* counts 1, 2, 3, 4; after the spawn that brings the count to 4 no step at *)
(* most 1 second later spawns.                                              *)
C14_BurstFill ==
    [][/\ (/\ SimStep
           /\ ~StepCollides
           /\ Len(spawns) = Len(foods)
           /\ Len(foods) < 4
           /\ StepHead \notin FoodPositions(foods)
           /\ \A f \in Range(foods) : ~Expired(f)) =>
             /\ Len(foods') = Len(foods) + 1
             /\ SubSeq(foods', 1, Len(foods)) = foods
             /\ foods'[Len(foods')].Spawned = clock'
             /\ spawns' = Append(spawns, [at |-> clock',
                                          count |-> Len(spawns) + 1])
       /\ (/\ SimStep
           /\ Len(spawns) = 4
           /\ spawns[4].count = 4
           /\ clock' - spawns[4].at <= 20) => ~SpawnsNow]_vars

C14_Witness ==
    /\ stepped
    /\ hit = "none"
    /\ Len(spawns) = 4
    /\ spawns[4].count = 4
    /\ clock = spawns[4].at + 20
    /\ Len(foods) = 3
    /\ score = 10

(* C15 as stated: once a spawn of this life has filled the set to 4, every  *)
(* later spawn of the life comes at least 1 second after the spawn before.  *)
C15_Original ==
    \A j \in 1..Len(spawns) :
        spawns[j].count = 4 =>
            \A i \in (j + 1)..Len(spawns) :
                spawns[i].at - spawns[i - 1].at >= 20

(* C15: the spawn that follows a spawn which filled the set to 4 comes      *)
(* more than 1 second after it, whatever is eaten or expires in between; a  *)
(* spawn that leaves the set below 4 may be followed by one in the next     *)
(* step.                                                                    *)
C15_TrickleLaw ==
    \A i \in 1..(Len(spawns) - 1) :
        /\ spawns[i].count = 4 => spawns[i + 1].at - spawns[i].at > 20
        /\ spawns[i].count < 4 => spawns[i + 1].at - spawns[i].at >= 2

C15_Witness ==
    /\ stepped
    /\ Len(spawns) = 6
    /\ spawns[4].count = 4
    /\ spawns[5].at > spawns[4].at + 20
    /\ spawns[5].count < 4
    /\ spawns[6].at = spawns[5].at + 2

(* C16: every food spawn attempt terminates: whenever the coming step      *)
(* calls spawnFood (fewer than 4 items, deadline passed), some grid cell is *)
(* occupied neither by the snake nor by a food item.                        *)
C16_SpawnTerminates ==
    \A K \in KeySets :
        LET now == clock + MoveInterval
            heading == DirectionInput(dir, K)
            newHead == NewHead(snake, heading)
            meal == Consume(foods, newHead, now)
            body == Trim(<<newHead>> \o snake, meal.ate \/ grow)
        IN  (/\ ~gameOver
             /\ MoveDue(now, lastMove)
             /\ ~HitsWall(newHead)
             /\ ~HitsSelf(snake, newHead)
             /\ SpawnDue(meal.foods, now, nextFoodTime)) =>
                \E p \in Grid : ~Overlap(body, meal.foods, p)

====
